---- MODULE Spec2Model ----
(***************************************************************************)
(* RosSubscriberSystem<RosMessage>                                         *)
(* (include/drake_ros_systems/ros_subscriber_system.h).                    *)
(*                                                                         *)
(* The message buffer (received_message_, received_message_count_) is      *)
(* written by HandleMessage on threads of the messaging layer, read by the *)
(* scheduler thread (DoCalcNextUpdateTime, DoCalcUnrestrictedUpdate,       *)
(* SetDefaultState) and by callers of WaitForMessage.  Every statement of  *)
(* a method that touches shared state is one step, so that interleavings   *)
(* of the threads are those the mutex allows.                              *)
(***************************************************************************)
EXTENDS Integers, Sequences, FiniteSets, TLC

\* ---------------------------------------------------------------- bounds
\* HandleMessage calls that are started in one behaviour.
MaxDeliveries == 2
\* Context times (in units of the 0.0001 offset) a poll is called with.
MaxTime == 1
\* Blocking waits of one WaitForMessage call that the history counts.
MaxWaits == 2
\* HandleMessage calls started where no thread calls WaitForMessage.
MaxBatch == MaxDeliveries + 1

\* -------------------------------------------------------------- universe
\* Threads of the messaging layer that invoke the HandleMessage callback.
DelivererPool == <<"d1", "d2">>
Deliverers == {DelivererPool[i] : i \in 1..Len(DelivererPool)}
\* Threads that call WaitForMessage.
WaiterPool == <<"w1", "w2">>
Waiters == {WaiterPool[i] : i \in 1..Len(WaiterPool)}
\* The thread that drives the scheduler hooks.
Scheduler == "s"
Threads == Deliverers \cup Waiters \cup {Scheduler}
NoThread == "none"
\* Contexts of the scheduler framework.
Contexts == {"c1"}
\* Payloads the messaging layer delivers: the k-th call of the callback
\* carries payload k, so that a payload identifies its delivery.
\* DefaultMessage is RosMessage{}.
Messages == 1..MaxDeliveries
DefaultMessage == 0
\* The offset 0.0001 in units of itself.
kTimeOffset == 1
\* Times are doubles (seconds).  Two ranges of them are modelled.
\* Ticks(k) is k * 0.0001 for small k, where the double sum t + 0.0001 is
\* the double of the next tick.  Huge(k) is the k-th double from 2^40 on
\* (2^40 + k * 2^-12): doubles there are 2^-12 = 0.000244... apart, so the
\* exact sum t + 0.0001 lies less than half a spacing above t.
Ticks(k) == [mag |-> "ticks", n |-> k]
Huge(k) == [mag |-> "huge", n |-> k]
\* The value of *time a caller passes to DoCalcNextUpdateTime.
Infinity == [mag |-> "inf", n |-> 0]
\* The context times a poll is called with.
Times == {Ticks(k) : k \in 0..MaxTime} \cup {Huge(0)}
\* a < b for doubles.
Rank(t) == CASE t.mag = "ticks" -> 0 [] t.mag = "huge" -> 1 [] OTHER -> 2
Before(a, b) ==
    \/ Rank(a) < Rank(b)
    \/ Rank(a) = Rank(b) /\ a.n < b.n
\* context.get_time() + 0.0001 in double arithmetic (round to nearest).
AddOffset(t) ==
    IF t.mag = "ticks" THEN Ticks(t.n + kTimeOffset) ELSE t

VARIABLES
    \* the message buffer and its guards (members of RosSubscriberSystem)
    received_message_mutex_,      \* the thread that holds the mutex, or NoThread
    received_message_condition_variable_, \* threads blocked in wait(lock)
    received_message_,            \* the most recently received message
    received_message_count_,      \* the message counter
    \* position of every thread
    pc,
    \* HandleMessage: the message parameter of each deliverer
    message,
    \* WaitForMessage: parameter and local of each waiter
    old_message_count,
    new_message_count,
    \* the context: abstract state slots kStateIndexMessage / MessageCount
    created,
    state_message,
    state_message_count,
    \* the scheduler thread: the context and hook it runs, its locals, and
    \* the out-parameters of DoCalcNextUpdateTime and CalcOutputValue
    ctx,
    op,
    last_message_count,
    received_message_count,
    context_time,
    time,
    events,
    output_value,
    \* history (not program state)
    started,        \* number of HandleMessage calls started
    incremented,    \* payloads in the order of received_message_count_++
    completed,      \* payloads in the order the HandleMessage calls returned
    waits,          \* per waiter: times the call has blocked in wait(lock)
    observed,       \* per context: the (payload, counter) pairs ever stored
    phase,          \* per context: hooks run since SetDefaultState
    last_hook,      \* per context: the last hook that changed or polled it
    count_at_poll,  \* per context: counter when the first poll started
    after_commit,   \* the last poll directly followed a commit on ctx and
                    \* no counter increment lay between the copy and its read
    inc_since_copy, \* per context: a counter increment since the last copy
    \* the life of the RosSubscriberSystem object
    life,           \* position of the thread that constructs and destroys it
    node_handle_,   \* the member node_handle_: "null", "valid" or "unset"
    subscribed,     \* the messaging layer holds the HandleMessage callback
    ports,          \* output ports declared
    destroyed,      \* number of members destroyed so far
    joined          \* history: unsubscribing found a callback in progress

bufferVars == <<received_message_mutex_, received_message_condition_variable_,
                received_message_, received_message_count_>>
deliverVars == <<message, started, incremented, completed>>
waitVars == <<old_message_count, new_message_count, waits>>
stateVars == <<created, state_message, state_message_count>>
schedVars == <<ctx, op, last_message_count, received_message_count,
               context_time, time, events, output_value>>
ghostVars == <<observed, phase, last_hook, count_at_poll, after_commit,
               inc_since_copy>>
lifeVars == <<life, node_handle_, subscribed, ports, destroyed, joined>>
vars == <<bufferVars, pc, deliverVars, waitVars, stateVars, schedVars,
          ghostVars, lifeVars>>

\* ------------------------------------------------------------ primitives
\* The callback and WaitForMessage run on whichever thread is free; the
\* threads of a pool are interchangeable, so a call takes the first one.
FirstFree(t, pool, free) ==
    \E i \in 1..Len(pool) :
        /\ pool[i] = t
        /\ pc[t] \in free
        /\ \A j \in 1..(i - 1) : pc[pool[j]] \notin free

\* std::mutex: lock() succeeds only when no thread holds the mutex.
MutexFree == received_message_mutex_ = NoThread

\* std::lock_guard / std::unique_lock constructor executed by thread t.
Lock(t) ==
    /\ MutexFree
    /\ received_message_mutex_' = t

\* The guard's destructor, or lock.unlock().
Unlock(t) ==
    received_message_mutex_' = NoThread

\* notify_one() in its place: one blocked thread is woken.
NotifyOne(blocked) ==
    IF blocked = {} THEN {} ELSE blocked \ {CHOOSE w \in blocked : TRUE}

\* condition_variable::notify_all(): no thread stays blocked.
NotifyAll(blocked) == {}

\* The last element of a history, DefaultMessage when it is empty.
LastOf(h) == IF Len(h) = 0 THEN DefaultMessage ELSE h[Len(h)]

\* -------------------------------------------------------------- initial
InitMembers ==
    /\ received_message_mutex_ = NoThread
    /\ received_message_condition_variable_ = {}
    /\ received_message_ = DefaultMessage
    /\ received_message_count_ = 0
    /\ pc = [t \in Threads |-> "idle"]
    /\ message = [d \in Deliverers |-> DefaultMessage]
    /\ old_message_count = [w \in Waiters |-> 0]
    /\ new_message_count = [w \in Waiters |-> 0]
    /\ created = [c \in Contexts |-> FALSE]
    /\ state_message = [c \in Contexts |-> DefaultMessage]
    /\ state_message_count = [c \in Contexts |-> 0]
    /\ ctx = CHOOSE c \in Contexts : TRUE
    /\ op = "none"
    /\ last_message_count = 0
    /\ received_message_count = 0
    /\ context_time = Ticks(0)
    /\ time = Infinity
    /\ events = 0
    /\ output_value = DefaultMessage
    /\ started = 0
    /\ incremented = <<>>
    /\ completed = <<>>
    /\ waits = [w \in Waiters |-> 0]
    /\ observed = [c \in Contexts |-> {}]
    /\ phase = [c \in Contexts |-> "none"]
    /\ last_hook = [c \in Contexts |-> "none"]
    /\ count_at_poll = [c \in Contexts |-> 0]
    /\ after_commit = FALSE
    /\ inc_since_copy = [c \in Contexts |-> FALSE]

\* The state after a successful construction: the constructor has returned
\* and the subscription is registered.
Init ==
    /\ InitMembers
    /\ life = "alive"
    /\ node_handle_ = "valid"
    /\ subscribed = TRUE
    /\ ports = 1
    /\ destroyed = 0
    /\ joined = FALSE

\* -------------------------------------------------------- HandleMessage
\* The messaging layer invokes the callback on thread d with payload m,
\* as long as fewer than limit calls were started.
HandleMessageCallUpTo(d, m, limit) ==
    /\ subscribed
    /\ FirstFree(d, DelivererPool, {"idle"})
    /\ started < limit
    /\ m = started + 1
    /\ pc' = [pc EXCEPT ![d] = "hm_lock"]
    /\ message' = [message EXCEPT ![d] = m]
    /\ started' = started + 1
    /\ UNCHANGED <<lifeVars, bufferVars, incremented, completed, waitVars, stateVars,
                   schedVars, ghostVars>>

HandleMessageCall(d, m) == HandleMessageCallUpTo(d, m, MaxDeliveries)

\* HandleMessage without the lock_guard.
HandleMessageNoLock(d) ==
    /\ pc[d] = "hm_lock"
    /\ pc' = [pc EXCEPT ![d] = "hm_store"]
    /\ UNCHANGED <<lifeVars, bufferVars, deliverVars, waitVars, stateVars, schedVars,
                   ghostVars>>

\* std::lock_guard<std::mutex> lock(received_message_mutex_);
HandleMessageLock(d) ==
    /\ pc[d] = "hm_lock"
    /\ Lock(d)
    /\ pc' = [pc EXCEPT ![d] = "hm_store"]
    /\ UNCHANGED <<lifeVars, received_message_condition_variable_, received_message_,
                   received_message_count_, deliverVars, waitVars, stateVars,
                   schedVars, ghostVars>>

\* received_message_ = message;
HandleMessageStore(d) ==
    /\ pc[d] = "hm_store"
    /\ received_message_' = message[d]
    /\ pc' = [pc EXCEPT ![d] = "hm_count"]
    /\ UNCHANGED <<lifeVars, received_message_mutex_,
                   received_message_condition_variable_,
                   received_message_count_, deliverVars, waitVars, stateVars,
                   schedVars, ghostVars>>

\* received_message_count_++;
HandleMessageCount(d) ==
    /\ pc[d] = "hm_count"
    /\ received_message_count_' = received_message_count_ + 1
    /\ incremented' = Append(incremented, message[d])
    /\ inc_since_copy' = [c \in Contexts |-> TRUE]
    /\ pc' = [pc EXCEPT ![d] = "hm_notify"]
    /\ UNCHANGED <<lifeVars, received_message_mutex_,
                   received_message_condition_variable_, received_message_,
                   message, started, completed, waitVars, stateVars,
                   schedVars, observed, phase, last_hook, count_at_poll,
                   after_commit>>

\* received_message_condition_variable_.notify_all(); and the end of the
\* scope, where the lock_guard releases the mutex and the call returns.
HandleMessageNotify(d) ==
    /\ pc[d] = "hm_notify"
    /\ received_message_condition_variable_' =
           NotifyAll(received_message_condition_variable_)
    /\ Unlock(d)
    /\ completed' = Append(completed, message[d])
    /\ message' = [message EXCEPT ![d] = DefaultMessage]
    /\ pc' = [pc EXCEPT ![d] = "idle"]
    /\ UNCHANGED <<lifeVars, received_message_, received_message_count_, started,
                   incremented, waitVars, stateVars, schedVars, ghostVars>>

HandleMessage(d) ==
    \/ \E m \in Messages : HandleMessageCall(d, m)
    \/ HandleMessageLock(d)
    \/ HandleMessageStore(d)
    \/ HandleMessageCount(d)
    \/ HandleMessageNotify(d)

\* The callback where one more call may be started.
HandleMessageBatch(d) ==
    \/ \E m \in 1..MaxBatch : HandleMessageCallUpTo(d, m, MaxBatch)
    \/ HandleMessageLock(d)
    \/ HandleMessageStore(d)
    \/ HandleMessageCount(d)
    \/ HandleMessageNotify(d)

\* -------------------------------------------------------- WaitForMessage
\* A caller invokes WaitForMessage(c) on thread w.
WaitForMessageCall(w, c) ==
    /\ FirstFree(w, WaiterPool, {"idle"})
    /\ pc' = [pc EXCEPT ![w] = "wm_lock"]
    /\ old_message_count' = [old_message_count EXCEPT ![w] = c]
    /\ UNCHANGED <<lifeVars, bufferVars, deliverVars, new_message_count, waits,
                   stateVars, schedVars, ghostVars>>

\* std::unique_lock<std::mutex> lock(received_message_mutex_);
WaitForMessageLock(w) ==
    /\ pc[w] = "wm_lock"
    /\ Lock(w)
    /\ pc' = [pc EXCEPT ![w] = "wm_test"]
    /\ UNCHANGED <<lifeVars, received_message_condition_variable_, received_message_,
                   received_message_count_, deliverVars, waitVars, stateVars,
                   schedVars, ghostVars>>

\* A WaitForMessage that never waits.
NoWaitTest(w) == FALSE

\* The test that decides whether the call waits (again):
\* while (old_message_count == received_message_count_)
LoopTest(w) == old_message_count[w] = received_message_count_

\* A wait that keeps the mutex while the thread is blocked.
WaitKeepsLock(w) == UNCHANGED received_message_mutex_

\* wait(lock) releases the mutex while the thread is blocked.
WaitRelease(w) == Unlock(w)

\* The loop test with the lock held; when it holds the thread enters
\* received_message_condition_variable_.wait(lock), which atomically
\* releases the mutex and blocks the thread.
WaitForMessageTest(w) ==
    /\ pc[w] = "wm_test"
    /\ IF LoopTest(w)
       THEN /\ WaitRelease(w)
            /\ received_message_condition_variable_' =
                   received_message_condition_variable_ \cup {w}
            /\ waits' = [waits EXCEPT ![w] = IF @ < MaxWaits THEN @ + 1 ELSE @]
            /\ pc' = [pc EXCEPT ![w] = "wm_wait"]
       ELSE /\ pc' = [pc EXCEPT ![w] = "wm_read"]
            /\ UNCHANGED <<received_message_mutex_,
                           received_message_condition_variable_, waits>>
    /\ UNCHANGED <<lifeVars, received_message_, received_message_count_, deliverVars,
                   old_message_count, new_message_count, stateVars,
                   schedVars, ghostVars>>

\* A spurious wake-up: the thread stops being blocked without a notify.
WaitForMessageSpuriousWakeup(w) ==
    /\ pc[w] = "wm_wait"
    /\ w \in received_message_condition_variable_
    /\ received_message_condition_variable_' =
           received_message_condition_variable_ \ {w}
    /\ UNCHANGED <<lifeVars, received_message_mutex_, received_message_,
                   received_message_count_, pc, deliverVars, waitVars,
                   stateVars, schedVars, ghostVars>>

\* An if in place of the while: a woken thread does not test again.
AfterWakeNoRetest(w) == "wm_read"

\* Where a woken thread continues: at the loop test.
AfterWake(w) == "wm_test"

\* wait(lock) returns: the woken thread has reacquired the mutex.
WaitForMessageWake(w) ==
    /\ pc[w] = "wm_wait"
    /\ w \notin received_message_condition_variable_
    /\ Lock(w)
    /\ pc' = [pc EXCEPT ![w] = AfterWake(w)]
    /\ UNCHANGED <<lifeVars, received_message_condition_variable_, received_message_,
                   received_message_count_, deliverVars, waitVars, stateVars,
                   schedVars, ghostVars>>

\* The next counter value computed instead of read.
ReadCountPlusOne(w) == old_message_count[w] + 1

\* The value WaitForMessage reads into new_message_count.
ReadCount(w) == received_message_count_

\* int new_message_count = received_message_count_;
WaitForMessageRead(w) ==
    /\ pc[w] = "wm_read"
    /\ new_message_count' = [new_message_count EXCEPT ![w] = ReadCount(w)]
    /\ pc' = [pc EXCEPT ![w] = "wm_unlock"]
    /\ UNCHANGED <<lifeVars, bufferVars, deliverVars, old_message_count, waits,
                   stateVars, schedVars, ghostVars>>

\* lock.unlock(); return new_message_count; the caller takes the value and
\* the frame of the call is gone.
WaitForMessageReturn(w) ==
    /\ pc[w] = "wm_unlock"
    /\ Unlock(w)
    /\ pc' = [pc EXCEPT ![w] = "idle"]
    /\ old_message_count' = [old_message_count EXCEPT ![w] = 0]
    /\ new_message_count' = [new_message_count EXCEPT ![w] = 0]
    /\ waits' = [waits EXCEPT ![w] = 0]
    /\ UNCHANGED <<lifeVars, received_message_condition_variable_, received_message_,
                   received_message_count_, deliverVars, stateVars, schedVars,
                   ghostVars>>

WaitForMessage(w) ==
    \/ \E c \in 0..MaxDeliveries : WaitForMessageCall(w, c)
    \/ WaitForMessageLock(w)
    \/ WaitForMessageTest(w)
    \/ WaitForMessageSpuriousWakeup(w)
    \/ WaitForMessageWake(w)
    \/ WaitForMessageRead(w)
    \/ WaitForMessageReturn(w)

\* ------------------------------------------------------ scheduler hooks
\* A GetMessageCount that reads the counter of the buffer.
LiveMessageCount(c) == received_message_count_

\* GetMessageCount(context): the counter stored in the context.
GetMessageCount(c) == state_message_count[c]

\* What a hook's call leaves of the previous poll: the locals and the
\* out-parameters of DoCalcNextUpdateTime and CalcOutputValue belong to
\* those calls and are gone when the next hook starts.
ForgetCall ==
    /\ last_message_count' = 0
    /\ received_message_count' = 0
    /\ context_time' = Ticks(0)
    /\ time' = Infinity
    /\ events' = 0
    /\ output_value' = DefaultMessage

\* The framework creates context c: AllocateAbstractState makes the two
\* slots (RosMessage{}, 0), then SetDefaultState runs
\* ProcessMessageAndStoreToAbstractState on them.
SetDefaultState(c) ==
    /\ pc[Scheduler] = "idle"
    /\ ~created[c]
    /\ ForgetCall
    /\ ctx' = c
    /\ op' = "init"
    /\ created' = [created EXCEPT ![c] = TRUE]
    /\ state_message' = [state_message EXCEPT ![c] = DefaultMessage]
    /\ state_message_count' = [state_message_count EXCEPT ![c] = 0]
    /\ observed' = [observed EXCEPT ![c] = {}]
    /\ phase' = [phase EXCEPT ![c] = "none"]
    /\ last_hook' = [last_hook EXCEPT ![c] = "none"]
    /\ pc' = [pc EXCEPT ![Scheduler] = "ps_lock"]
    /\ UNCHANGED <<lifeVars, bufferVars, deliverVars, waitVars, count_at_poll,
                   after_commit, inc_since_copy>>

\* The framework dispatches the unrestricted update of context c, which
\* runs ProcessMessageAndStoreToAbstractState on the state of c.
DoCalcUnrestrictedUpdate(c) ==
    /\ pc[Scheduler] = "idle"
    /\ created[c]
    /\ ctx' = c
    /\ op' = "commit"
    /\ ForgetCall
    /\ pc' = [pc EXCEPT ![Scheduler] = "ps_lock"]
    /\ UNCHANGED <<lifeVars, bufferVars, deliverVars, waitVars, stateVars, ghostVars>>

\* ProcessMessageAndStoreToAbstractState without the lock_guard.
ProcessMessageNoLock ==
    /\ pc[Scheduler] = "ps_lock"
    /\ pc' = [pc EXCEPT ![Scheduler] = "ps_message"]
    /\ UNCHANGED <<lifeVars, bufferVars, deliverVars, waitVars, stateVars, schedVars,
                   ghostVars>>

\* std::lock_guard<std::mutex> lock(received_message_mutex_);
ProcessMessageLock ==
    /\ pc[Scheduler] = "ps_lock"
    /\ Lock(Scheduler)
    /\ pc' = [pc EXCEPT ![Scheduler] = "ps_message"]
    /\ UNCHANGED <<lifeVars, received_message_condition_variable_, received_message_,
                   received_message_count_, deliverVars, waitVars, stateVars,
                   schedVars, ghostVars>>

\* A queue in place of the single slot: the copy takes the oldest payload
\* the context has not stored yet.
QueuedMessage ==
    IF state_message_count[ctx] < Len(incremented)
    THEN incremented[state_message_count[ctx] + 1]
    ELSE received_message_

\* The payload ProcessMessageAndStoreToAbstractState stores.
StoredMessage == received_message_

\* abstract_state[kStateIndexMessage] = received_message_;
ProcessMessageCopyMessage ==
    /\ pc[Scheduler] = "ps_message"
    /\ state_message' = [state_message EXCEPT ![ctx] = StoredMessage]
    /\ pc' = [pc EXCEPT ![Scheduler] = "ps_count"]
    /\ UNCHANGED <<lifeVars, bufferVars, deliverVars, waitVars, created,
                   state_message_count, schedVars, ghostVars>>

\* A commit that advances the stored counter by one.
StoredCountPlusOne ==
    IF op = "commit" THEN state_message_count[ctx] + 1
    ELSE received_message_count_

\* A SetDefaultState that keeps the counter AllocateAbstractState made.
AllocatedCount ==
    IF op = "init" THEN state_message_count[ctx] ELSE received_message_count_

\* A counter of the deliveries since the previous copy.
StoredDelta == received_message_count_ - state_message_count[ctx]

\* The counter value ProcessMessageAndStoreToAbstractState stores.
StoredCount == received_message_count_

\* abstract_state[kStateIndexMessageCount] = received_message_count_;
\* and the end of the scope, where the lock_guard releases the mutex.
ProcessMessageCopyCount ==
    /\ pc[Scheduler] = "ps_count"
    /\ state_message_count' = [state_message_count EXCEPT ![ctx] = StoredCount]
    /\ Unlock(Scheduler)
    /\ observed' = [observed EXCEPT
           ![ctx] = @ \cup {<<state_message[ctx], StoredCount>>}]
    /\ phase' = [phase EXCEPT ![ctx] =
           IF op = "init" THEN "fresh"
           ELSE IF @ = "polled" THEN "committed" ELSE "other"]
    /\ last_hook' = [last_hook EXCEPT ![ctx] = op]
    /\ inc_since_copy' = [inc_since_copy EXCEPT ![ctx] = FALSE]
    /\ pc' = [pc EXCEPT ![Scheduler] = "idle"]
    /\ count_at_poll' = [count_at_poll EXCEPT
           ![ctx] = IF phase[ctx] = "polled" THEN @ ELSE 0]
    /\ UNCHANGED <<lifeVars, received_message_condition_variable_, received_message_,
                   received_message_count_, deliverVars, waitVars, created,
                   state_message, schedVars, after_commit>>

ProcessMessageAndStoreToAbstractState ==
    \/ ProcessMessageLock
    \/ ProcessMessageCopyMessage
    \/ ProcessMessageCopyCount

\* The framework polls context c, whose time is t, with an empty event
\* collection and *time = Infinity.
\* const int last_message_count = GetMessageCount(context);
DoCalcNextUpdateTimeCall(c, t) ==
    /\ pc[Scheduler] = "idle"
    /\ created[c]
    /\ ctx' = c
    /\ op' = "poll"
    /\ context_time' = t
    /\ time' = Infinity
    /\ events' = 0
    /\ last_message_count' = GetMessageCount(c)
    /\ received_message_count' = 0
    /\ output_value' = DefaultMessage
    /\ phase' = [phase EXCEPT ![c] = IF @ = "fresh" THEN "polled" ELSE "other"]
    /\ count_at_poll' = [count_at_poll EXCEPT
           ![c] = IF phase[c] = "fresh" THEN received_message_count_ ELSE 0]
    /\ after_commit' = (last_hook[c] = "commit")
    /\ last_hook' = [last_hook EXCEPT ![c] = "poll"]
    /\ pc' = [pc EXCEPT ![Scheduler] = "nu_lock"]
    /\ UNCHANGED <<lifeVars, bufferVars, deliverVars, waitVars, stateVars, observed,
                   inc_since_copy>>

\* std::unique_lock<std::mutex> lock(received_message_mutex_);
DoCalcNextUpdateTimeLock ==
    /\ pc[Scheduler] = "nu_lock"
    /\ Lock(Scheduler)
    /\ pc' = [pc EXCEPT ![Scheduler] = "nu_read"]
    /\ UNCHANGED <<lifeVars, received_message_condition_variable_, received_message_,
                   received_message_count_, deliverVars, waitVars, stateVars,
                   schedVars, ghostVars>>

\* return received_message_count_; (the lambda ends and releases the mutex)
DoCalcNextUpdateTimeRead ==
    /\ pc[Scheduler] = "nu_read"
    /\ received_message_count' = received_message_count_
    /\ Unlock(Scheduler)
    /\ after_commit' = (after_commit /\ ~inc_since_copy[ctx])
    /\ pc' = [pc EXCEPT ![Scheduler] = "nu_compare"]
    /\ UNCHANGED <<lifeVars, received_message_condition_variable_, received_message_,
                   received_message_count_, deliverVars, waitVars, stateVars,
                   ctx, op, last_message_count, context_time, time, events,
                   output_value, observed, phase, last_hook, count_at_poll,
                   inc_since_copy>>

\* A test for "some message was received" instead of "a new one".
HasAnyMessage == received_message_count # 0

\* if (last_message_count != received_message_count)
HasNewMessage == last_message_count # received_message_count

\* *time written on every poll.
TimeOutAlways == AddOffset(context_time)

\* The value of *time when DoCalcNextUpdateTime returns: written only in
\* the body of the if, *time = context.get_time() + 0.0001;
TimeOut == IF HasNewMessage THEN AddOffset(context_time) ELSE time

\* The events in the collection when DoCalcNextUpdateTime returns: the
\* body of the if adds one UnrestrictedUpdateEvent.
EventsOut == IF HasNewMessage THEN events + 1 ELSE events

DoCalcNextUpdateTimeCompare ==
    /\ pc[Scheduler] = "nu_compare"
    /\ time' = TimeOut
    /\ events' = EventsOut
    /\ pc' = [pc EXCEPT ![Scheduler] = "idle"]
    /\ UNCHANGED <<lifeVars, bufferVars, deliverVars, waitVars, stateVars, ctx, op,
                   last_message_count, received_message_count, context_time,
                   output_value, ghostVars>>

DoCalcNextUpdateTime ==
    \/ \E c \in Contexts, t \in Times : DoCalcNextUpdateTimeCall(c, t)
    \/ DoCalcNextUpdateTimeLock
    \/ DoCalcNextUpdateTimeRead
    \/ DoCalcNextUpdateTimeCompare

\* The output taken from the live buffer.
OutputFromBuffer(c) == received_message_

\* The slot of the context CalcOutputValue copies to the output.
OutputSource(c) == state_message[c]

\* output_value->SetFrom(context.get_abstract_state(kStateIndexMessage));
CalcOutputValue(c) ==
    /\ pc[Scheduler] = "idle"
    /\ created[c]
    /\ ctx' = c
    /\ op' = "output"
    /\ output_value' = OutputSource(c)
    /\ last_message_count' = 0
    /\ received_message_count' = 0
    /\ context_time' = Ticks(0)
    /\ time' = Infinity
    /\ events' = 0
    /\ UNCHANGED <<lifeVars, bufferVars, pc, deliverVars, waitVars, stateVars,
                   ghostVars>>

\* ------------------------------------------- construction and destruction
\* Make(topic, node_handle) / the constructor is entered with handle h; the
\* member initialisers set topic_ and node_handle_ and default-construct
\* the buffer members.
Make(h) ==
    /\ life = "none"
    /\ node_handle_' = h
    /\ life' = "ctor_demand"
    /\ UNCHANGED <<bufferVars, pc, deliverVars, waitVars, stateVars,
                   schedVars, ghostVars, subscribed, ports, destroyed, joined>>

\* A precondition check that is compiled out.
DemandDisabled == TRUE

\* DRAKE_DEMAND(node_handle_): the condition it demands.
DemandPasses == node_handle_ # "null"

\* DRAKE_DEMAND(node_handle_); a failed demand terminates the process.
ConstructorDemand ==
    /\ life = "ctor_demand"
    /\ life' = IF DemandPasses THEN "ctor_subscribe" ELSE "aborted"
    /\ UNCHANGED <<bufferVars, pc, deliverVars, waitVars, stateVars,
                   schedVars, ghostVars, node_handle_, subscribed, ports,
                   destroyed, joined>>

\* subscriber_ = node_handle->subscribe(topic, 100, &HandleMessage, this);
ConstructorSubscribe ==
    /\ life = "ctor_subscribe"
    /\ subscribed' = TRUE
    /\ life' = "ctor_port"
    /\ UNCHANGED <<bufferVars, pc, deliverVars, waitVars, stateVars,
                   schedVars, ghostVars, node_handle_, ports, destroyed,
                   joined>>

\* DeclareAbstractOutputPort(...); set_name(...); the constructor returns.
ConstructorDeclarePort ==
    /\ life = "ctor_port"
    /\ ports' = ports + 1
    /\ life' = "alive"
    /\ UNCHANGED <<bufferVars, pc, deliverVars, waitVars, stateVars,
                   schedVars, ghostVars, node_handle_, subscribed, destroyed,
                   joined>>

\* The members with subscriber_ declared before the buffer.
SubscriberDeclaredFirst ==
    <<"topic_", "subscriber_", "received_message_mutex_",
      "received_message_condition_variable_", "received_message_",
      "received_message_count_", "node_handle_">>

\* The non-static data members in the order of their declarations.
DeclarationOrder ==
    <<"topic_", "received_message_mutex_",
      "received_message_condition_variable_", "received_message_",
      "received_message_count_", "node_handle_", "subscriber_">>

\* Members are destroyed in the reverse order of their declarations.
DestructionOrder ==
    [i \in 1..Len(DeclarationOrder) |->
        DeclarationOrder[Len(DeclarationOrder) + 1 - i]]

\* The members that make up the message buffer.
BufferMembers ==
    {"received_message_mutex_", "received_message_condition_variable_",
     "received_message_", "received_message_count_"}

\* Member m has been destroyed.
Released(m) == \E i \in 1..destroyed : DestructionOrder[i] = m

\* The member the destructor destroys next.
NextMember == DestructionOrder[destroyed + 1]

\* ~RosSubscriberSystem() override {}: the body is empty, then the members
\* are destroyed.
Destructor ==
    /\ life = "alive"
    /\ life' = "dtor"
    /\ UNCHANGED <<bufferVars, pc, deliverVars, waitVars, stateVars,
                   schedVars, ghostVars, node_handle_, subscribed, ports,
                   destroyed, joined>>

\* The destructor of subscriber_, first half: the handle unsubscribes, so
\* the messaging layer starts no further callback.
SubscriberUnsubscribe ==
    /\ life = "dtor"
    /\ destroyed < Len(DestructionOrder)
    /\ NextMember = "subscriber_"
    /\ subscribed
    /\ subscribed' = FALSE
    /\ joined' = (\E d \in Deliverers : pc[d] # "idle")
    /\ UNCHANGED <<bufferVars, pc, deliverVars, waitVars, stateVars,
                   schedVars, ghostVars, life, node_handle_, ports, destroyed>>

\* The destructor of subscriber_, second half: unsubscription is complete
\* once no callback is in progress; then the handle is gone.
SubscriberQuiescent == \A d \in Deliverers : pc[d] = "idle"

\* One member is destroyed; after the last one the object is gone.
DestroyMember ==
    /\ life = "dtor"
    /\ destroyed < Len(DestructionOrder)
    /\ NextMember = "subscriber_" => (~subscribed /\ SubscriberQuiescent)
    /\ destroyed' = destroyed + 1
    /\ life' = IF destroyed + 1 = Len(DestructionOrder) THEN "destroyed"
               ELSE "dtor"
    /\ UNCHANGED <<bufferVars, pc, deliverVars, waitVars, stateVars,
                   schedVars, ghostVars, node_handle_, subscribed, ports,
                   joined>>

\* ------------------------------------------------------- specifications
\* The bridge with its delivery threads, the scheduler thread and one
\* thread that calls WaitForMessage.
SingleWaiter == {WaiterPool[1]}

Next ==
    \/ \E d \in Deliverers : HandleMessage(d)
    \/ \E w \in SingleWaiter : WaitForMessage(w)
    \/ \E c \in Contexts : SetDefaultState(c)
    \/ \E c \in Contexts : DoCalcUnrestrictedUpdate(c)
    \/ ProcessMessageAndStoreToAbstractState
    \/ DoCalcNextUpdateTime
    \/ \E c \in Contexts : CalcOutputValue(c)

Spec == Init /\ [][Next]_vars

\* The message buffer with its delivery threads and every thread of the
\* waiter pool, under fair scheduling: a thread that can take a step of a
\* call it is in takes it (WF), and a thread that asks for the mutex gets
\* it if the mutex is free again and again (SF).  That a callback or a
\* WaitForMessage call is started at all is not required.
NextWaiters ==
    \/ \E d \in Deliverers : HandleMessage(d)
    \/ \E w \in Waiters : WaitForMessage(w)

Fairness ==
    /\ \A d \in Deliverers :
        /\ SF_vars(HandleMessageLock(d))
        /\ WF_vars(HandleMessageStore(d))
        /\ WF_vars(HandleMessageCount(d))
        /\ WF_vars(HandleMessageNotify(d))
    /\ \A w \in Waiters :
        /\ SF_vars(WaitForMessageLock(w))
        /\ WF_vars(WaitForMessageTest(w))
        /\ SF_vars(WaitForMessageWake(w))
        /\ WF_vars(WaitForMessageRead(w))
        /\ WF_vars(WaitForMessageReturn(w))

SpecWaiters == Init /\ [][NextWaiters]_vars /\ Fairness

\* The bridge with its delivery threads and the scheduler thread, no
\* thread calling WaitForMessage, and one more delivery.
NextScheduler ==
    \/ \E d \in Deliverers : HandleMessageBatch(d)
    \/ \E c \in Contexts : SetDefaultState(c)
    \/ \E c \in Contexts : DoCalcUnrestrictedUpdate(c)
    \/ ProcessMessageAndStoreToAbstractState
    \/ DoCalcNextUpdateTime
    \/ \E c \in Contexts : CalcOutputValue(c)

SpecScheduler == Init /\ [][NextScheduler]_vars

\* The run loop of a simulator on context c: it polls when no event is
\* pending, that is after SetDefaultState, after a commit, and after a poll
\* that added no event.
SimulatorPoll(c, t) ==
    /\ \/ op \in {"init", "commit"}
       \/ op = "poll" /\ events = 0
    /\ DoCalcNextUpdateTimeCall(c, t)

\* The run loop dispatches the UnrestrictedUpdateEvent the poll added to
\* the collection, and only that.
SimulatorCommit(c) ==
    /\ op = "poll"
    /\ ctx = c
    /\ events > 0
    /\ DoCalcUnrestrictedUpdate(c)

NextSimulator ==
    \/ \E d \in Deliverers : HandleMessage(d)
    \/ \E c \in Contexts : SetDefaultState(c)
    \/ \E c \in Contexts, t \in Times : SimulatorPoll(c, t)
    \/ \E c \in Contexts : SimulatorCommit(c)
    \/ ProcessMessageAndStoreToAbstractState
    \/ DoCalcNextUpdateTimeLock
    \/ DoCalcNextUpdateTimeRead
    \/ DoCalcNextUpdateTimeCompare

\* The simulator keeps running: the scheduler thread takes every step it
\* can take (WF) and gets the mutex if it is free again and again (SF);
\* a callback that has started runs to its end.  Nothing obliges the
\* messaging layer to deliver.
SimulatorFairness ==
    /\ \A d \in Deliverers :
        /\ SF_vars(HandleMessageLock(d))
        /\ WF_vars(HandleMessageStore(d))
        /\ WF_vars(HandleMessageCount(d))
        /\ WF_vars(HandleMessageNotify(d))
    /\ WF_vars(\E c \in Contexts : SetDefaultState(c))
    /\ WF_vars(\E c \in Contexts, t \in Times : SimulatorPoll(c, t))
    /\ WF_vars(\E c \in Contexts : SimulatorCommit(c))
    /\ SF_vars(ProcessMessageLock)
    /\ WF_vars(ProcessMessageCopyMessage)
    /\ WF_vars(ProcessMessageCopyCount)
    /\ SF_vars(DoCalcNextUpdateTimeLock)
    /\ WF_vars(DoCalcNextUpdateTimeRead)
    /\ WF_vars(DoCalcNextUpdateTimeCompare)

SpecSimulator == Init /\ [][NextSimulator]_vars /\ SimulatorFairness

\* A caller that drives the hooks by hand, without a run loop: on one
\* thread it calls WaitForMessage(GetMessageCount(context)), then polls,
\* then commits, and starts over.  The frame of its WaitForMessage call is
\* thread Driver; "wm_done" says that the call has returned and the caller
\* holds the returned value in new_message_count, "wm_committed" that the
\* caller has gone on to the commit.
Driver == WaiterPool[1]

\* system.WaitForMessage(system.GetMessageCount(context)) on context c.
ManualWaitCall(c) ==
    /\ pc[Scheduler] = "idle"
    /\ created[c]
    /\ ctx = c
    /\ WaitForMessageCall(Driver, GetMessageCount(c))

\* lock.unlock(); return new_message_count; the caller keeps the value.
ManualReturn ==
    /\ pc[Driver] = "wm_unlock"
    /\ Unlock(Driver)
    /\ pc' = [pc EXCEPT ![Driver] = "wm_done"]
    /\ UNCHANGED <<lifeVars, received_message_condition_variable_,
                   received_message_, received_message_count_, deliverVars,
                   waitVars, stateVars, schedVars, ghostVars>>

\* The caller polls context c after WaitForMessage has returned.
ManualPoll(c, t) ==
    /\ pc[Driver] = "wm_done"
    /\ ctx = c
    /\ DoCalcNextUpdateTimeCall(c, t)

\* The caller dispatches the unrestricted update of context c after the
\* poll: DoCalcUnrestrictedUpdate, as called by this caller.
ManualCommit(c) ==
    /\ pc[Driver] = "wm_done"
    /\ pc[Scheduler] = "idle"
    /\ op = "poll"
    /\ ctx = c
    /\ created[c]
    /\ ctx' = c
    /\ op' = "commit"
    /\ ForgetCall
    /\ pc' = [pc EXCEPT ![Scheduler] = "ps_lock", ![Driver] = "wm_committed"]
    /\ UNCHANGED <<lifeVars, bufferVars, deliverVars, waitVars, stateVars,
                   ghostVars>>

\* The caller drops the value WaitForMessage returned and starts over.
ManualForget ==
    /\ pc[Driver] = "wm_committed"
    /\ pc[Scheduler] = "idle"
    /\ pc' = [pc EXCEPT ![Driver] = "idle"]
    /\ old_message_count' = [old_message_count EXCEPT ![Driver] = 0]
    /\ new_message_count' = [new_message_count EXCEPT ![Driver] = 0]
    /\ waits' = [waits EXCEPT ![Driver] = 0]
    /\ UNCHANGED <<lifeVars, bufferVars, deliverVars, stateVars, schedVars,
                   ghostVars>>

NextManual ==
    \/ \E d \in Deliverers : HandleMessage(d)
    \/ \E c \in Contexts : SetDefaultState(c)
    \/ ProcessMessageAndStoreToAbstractState
    \/ \E c \in Contexts : ManualWaitCall(c)
    \/ WaitForMessageLock(Driver)
    \/ WaitForMessageTest(Driver)
    \/ WaitForMessageSpuriousWakeup(Driver)
    \/ WaitForMessageWake(Driver)
    \/ WaitForMessageRead(Driver)
    \/ ManualReturn
    \/ \E c \in Contexts, t \in Times : ManualPoll(c, t)
    \/ DoCalcNextUpdateTimeLock
    \/ DoCalcNextUpdateTimeRead
    \/ DoCalcNextUpdateTimeCompare
    \/ \E c \in Contexts : ManualCommit(c)
    \/ ManualForget

SpecManual == Init /\ [][NextManual]_vars

\* The life of the object: construction with a valid or an absent node
\* handle, callbacks of the messaging layer, destruction.
InitLifecycle ==
    /\ InitMembers
    /\ life = "none"
    /\ node_handle_ = "unset"
    /\ subscribed = FALSE
    /\ ports = 0
    /\ destroyed = 0
    /\ joined = FALSE

NextLifecycle ==
    \/ \E h \in {"null", "valid"} : Make(h)
    \/ ConstructorDemand
    \/ ConstructorSubscribe
    \/ ConstructorDeclarePort
    \/ \E d \in Deliverers : HandleMessage(d)
    \/ Destructor
    \/ SubscriberUnsubscribe
    \/ DestroyMember

SpecLifecycle == InitLifecycle /\ [][NextLifecycle]_vars

\* ---------------------------------------------------------------- claims
\* The payload of the delivery that set the counter to k (RosMessage{} for
\* the initial counter 0).
PayloadOf(k) == IF k = 0 THEN DefaultMessage ELSE incremented[k]

\* The scheduler has returned from hook h.
Returned(h) == pc[Scheduler] = "idle" /\ op = h

\* C1: no torn read. Whenever the snapshot of a context is not in the
\* middle of being copied, its payload is the payload of the one delivery
\* that set the counter to the snapshot's counter.
C1_NoTornRead ==
    \A c \in Contexts :
        (created[c] /\ ~(pc[Scheduler] = "ps_count" /\ ctx = c)) =>
            /\ state_message_count[c] \in 0..Len(incremented)
            /\ state_message[c] = PayloadOf(state_message_count[c])

\* A commit copied the pair of the first delivery while the callback of
\* another delivery was waiting for the mutex.
C1_Witness ==
    /\ Returned("commit")
    /\ state_message_count[ctx] = 1
    /\ \E d \in Deliverers : pc[d] = "hm_lock"

\* C2: whenever no delivery holds the mutex, the counter is the number of
\* HandleMessage calls that have returned and the buffer holds the payload
\* of the last of them; the pair a reader takes under the lock (the
\* commit's copy, WaitForMessage's counter) is that pair.
C2_BufferIsLastDelivery ==
    /\ received_message_mutex_ \notin Deliverers =>
        /\ received_message_count_ = Len(completed)
        /\ received_message_ = LastOf(completed)
    /\ pc[Scheduler] = "ps_count" =>
        /\ state_message[ctx] = LastOf(completed)
        /\ StoredCount = Len(completed)
    /\ \A w \in Waiters :
        pc[w] = "wm_unlock" => new_message_count[w] = Len(completed)

\* Two callbacks ran concurrently and the one started second returned
\* first; the mutex is free.
C2_Witness ==
    /\ MutexFree
    /\ Len(completed) = 2
    /\ completed[1] = 2
    /\ received_message_ = 1

\* C3: at every poll the snapshot counter of the polled context is at most
\* the live counter the poll read, and the poll adds an event (exactly one)
\* if and only if the two differ.
C3_PollEventIffDiffer ==
    /\ (pc[Scheduler] = "nu_compare" \/ Returned("poll")) =>
        state_message_count[ctx] <= received_message_count
    /\ Returned("poll") =>
        /\ events \in {0, 1}
        /\ events = 1 <=> state_message_count[ctx] # received_message_count

\* A poll found snapshot counter 1 and live counter 2 and added an event.
C3_Witness ==
    /\ Returned("poll")
    /\ state_message_count[ctx] = 1
    /\ received_message_count = 2
    /\ events = 1

\* C4: a context initialised at counter 0, then n >= 1 deliveries, then one
\* poll and one commit with no delivery after the poll started: the poll
\* reports exactly one event, the commit stores counter n and the payload
\* of the n-th delivery, and the snapshot never held an earlier payload.
C4_BatchCollapses ==
    \A c \in Contexts :
        LET n == count_at_poll[c] IN
        (/\ <<DefaultMessage, 0>> \in observed[c]
         /\ n >= 1
         /\ received_message_count_ = n
         /\ ctx = c) =>
            /\ (phase[c] = "polled" /\ Returned("poll")) => events = 1
            /\ phase[c] = "committed" =>
                /\ state_message_count[c] = n
                /\ state_message[c] = PayloadOf(n)
                /\ observed[c] = {<<DefaultMessage, 0>>, <<PayloadOf(n), n>>}

\* Two deliveries, then the first poll and the first commit of a context
\* that was initialised before them.
C4_Witness ==
    /\ phase[ctx] = "committed"
    /\ <<DefaultMessage, 0>> \in observed[ctx]
    /\ count_at_poll[ctx] = 2
    /\ received_message_count_ = 2
    /\ state_message_count[ctx] = 2

\* C5: a poll that directly follows a commit on the same context, with no
\* counter increment between the commit's copy and the poll's read, reports
\* no event and leaves *time as the caller passed it.
C5_SyncedPollIdempotent ==
    (Returned("poll") /\ after_commit) =>
        /\ events = 0
        /\ time = Infinity

\* Such a poll, on a snapshot that holds a delivered message.
C5_Witness ==
    /\ Returned("poll")
    /\ after_commit
    /\ state_message_count[ctx] >= 1
    /\ context_time = Ticks(1)

\* WaitForMessage on thread w has read the value it returns and still holds
\* the mutex.
Returning(w) == pc[w] = "wm_unlock"

\* C6 as stated: a call that blocked returns old_message_count + 1, and a
\* call that did not block returns the live counter.
C6_ReturnsNextCount ==
    \A w \in Waiters :
        Returning(w) =>
            /\ waits[w] >= 1 => new_message_count[w] = old_message_count[w] + 1
            /\ waits[w] = 0 => new_message_count[w] = received_message_count_

\* C6 amended: the call blocks exactly when the first test finds the live
\* counter equal to old_message_count; the value returned is the live
\* counter read under the lock, which is at least old_message_count + 1
\* for a call that blocked and differs from old_message_count for one that
\* did not.
C6_ReturnsLiveCount ==
    /\ \A w \in Waiters :
        Returning(w) =>
            /\ new_message_count[w] = received_message_count_
            /\ waits[w] >= 1 => new_message_count[w] >= old_message_count[w] + 1
            /\ waits[w] = 0 => new_message_count[w] # old_message_count[w]
    /\ \A w \in Waiters :
        (pc[w] = "wm_wait" /\ waits[w] = 1
            /\ w \in received_message_condition_variable_) =>
                (received_message_count_ = old_message_count[w]
                    \/ \E d \in Deliverers : pc[d] = "hm_notify")

\* Two deliveries completed before a blocked caller got the mutex back: it
\* returns old_message_count + 2.
C6_Witness ==
    \E w \in Waiters :
        /\ Returning(w)
        /\ waits[w] = 1
        /\ new_message_count[w] = old_message_count[w] + 2

\* C7: WaitForMessage leaves its loop only with the live counter different
\* from old_message_count, also after spurious wake-ups, and the value it
\* returns is that counter: never old_message_count.  A caller whose
\* old_message_count equals the live counter therefore stays in the loop.
C7_NeverReturnsOld ==
    \A w \in Waiters :
        /\ pc[w] \in {"wm_read", "wm_unlock"} =>
            received_message_count_ # old_message_count[w]
        /\ Returning(w) =>
            /\ new_message_count[w] # old_message_count[w]
            /\ new_message_count[w] = received_message_count_

\* A call that blocked twice (its first wake-up found the counter
\* unchanged, so it was spurious) returns.
C7_Witness ==
    \E w \in Waiters :
        /\ Returning(w)
        /\ waits[w] = 2

Holding ==
    {"hm_store", "hm_count", "hm_notify", "wm_test", "wm_read", "wm_unlock",
     "ps_message", "ps_count", "nu_read"}

\* The steps of calls in progress that do not depend on chance: every step
\* but the start of a call and a spurious wake-up.
Progress ==
    \/ \E d \in Deliverers :
        \/ HandleMessageLock(d)
        \/ HandleMessageStore(d)
        \/ HandleMessageCount(d)
        \/ HandleMessageNotify(d)
    \/ \E w \in Waiters :
        \/ WaitForMessageLock(w)
        \/ WaitForMessageTest(w)
        \/ WaitForMessageWake(w)
        \/ WaitForMessageRead(w)
        \/ WaitForMessageReturn(w)
    \/ ProcessMessageAndStoreToAbstractState
    \/ DoCalcNextUpdateTimeLock
    \/ DoCalcNextUpdateTimeRead
    \/ DoCalcNextUpdateTimeCompare

\* The threads that are inside a call and not blocked in wait(lock).
Active ==
    {t \in Threads :
        /\ pc[t] # "idle"
        /\ ~(pc[t] = "wm_wait" /\ t \in received_message_condition_variable_)}

\* C9: a thread blocked in WaitForMessage does not hold the mutex: the
\* holder is always at a position from which it releases the mutex by its
\* own steps, and whenever some thread is inside a call and not blocked in
\* wait(lock), a step is possible (no deadlock).
C9_BlockedWaiterHoldsNoLock ==
    /\ \A w \in Waiters : pc[w] = "wm_wait" => received_message_mutex_ # w
    /\ \A t \in Threads : received_message_mutex_ = t <=> pc[t] \in Holding
    /\ Active # {} => ENABLED Progress

\* A waiter is blocked while the commit copies under the mutex and a
\* delivery waits for it.
C9_Witness ==
    /\ \E w \in Waiters : w \in received_message_condition_variable_
    /\ pc[Scheduler] = "ps_count"
    /\ received_message_mutex_ = Scheduler
    /\ \E d \in Deliverers : pc[d] = "hm_lock"

\* A step of CalcOutputValue: the scheduler stays idle, the hook that ran
\* last is "output" and something of the scheduler's changed.
OutputStep ==
    /\ pc[Scheduler] = "idle"
    /\ pc'[Scheduler] = "idle"
    /\ op' = "output"
    /\ schedVars' # schedVars

\* C10: the value CalcOutputValue produces is the payload of the context's
\* snapshot; computing it changes neither the snapshot nor the buffer nor
\* the mutex, and a step of a delivery changes neither the snapshot nor the
\* output.
C10_OutputIsSnapshot ==
    /\ [](Returned("output") => output_value = state_message[ctx])
    /\ [][OutputStep =>
            /\ output_value' = state_message[ctx']
            /\ UNCHANGED <<bufferVars, stateVars>>]_vars
    /\ [][(\E d \in Deliverers : pc'[d] # pc[d]) =>
            UNCHANGED <<stateVars, output_value>>]_vars

\* The output is computed two deliveries after the last commit: it is the
\* snapshot's payload and not the buffer's.
C10_Witness ==
    /\ Returned("output")
    /\ state_message_count[ctx] = 0
    /\ received_message_count_ = 2
    /\ MutexFree
    /\ output_value = state_message[ctx]
    /\ output_value # received_message_

\* The payload of delivery k has been replaced in the buffer by a later
\* delivery.
Overwritten(k) ==
    /\ k \in 1..Len(incremented)
    /\ received_message_ # PayloadOf(k)

\* Payload m has been in the snapshot of context c or on the output port.
Seen(c, m) ==
    \/ state_message[c] = m
    \/ \E pair \in observed[c] : pair[1] = m
    \/ output_value = m

\* C11: single slot, latest wins. A payload that a later delivery has
\* overwritten in the buffer before context c stored it is never stored
\* in the snapshot of c and never appears on the output port afterwards.
C11_OverwrittenNeverSeen ==
    [][\A c \in Contexts, k \in 1..MaxBatch :
        (Overwritten(k) /\ ~Seen(c, PayloadOf(k))) =>
            ~(Seen(c, PayloadOf(k)))']_vars

\* deliver 1, poll, commit, deliver 2, deliver 3, poll, commit: the
\* snapshots were (1, 1) and then (3, 3); payload 2 was never stored.
C11_Witness ==
    /\ Returned("commit")
    /\ observed[ctx] =
           {<<DefaultMessage, 0>>, <<1, 1>>, <<3, 3>>}
    /\ incremented = <<1, 2, 3>>
    /\ state_message[ctx] = 3
    /\ ~Seen(ctx, 2)

C16_NullHandleAborts ==
    /\ node_handle_ = "null" =>
        /\ life \in {"ctor_demand", "aborted"}
        /\ ~subscribed
        /\ ports = 0
        /\ started = 0
    /\ life = "aborted" => node_handle_ = "null"

\* A construction with a null handle has failed.
C16_Witness ==
    /\ life = "aborted"
    /\ node_handle_ = "null"
    /\ ~subscribed
    /\ ports = 0

\* The step in which SetDefaultState finishes its copy.
InitCopyStep ==
    /\ op = "init"
    /\ pc[Scheduler] = "ps_count"
    /\ pc'[Scheduler] = "idle"

\* The step in which the first poll of a context returns, when no hook but
\* CalcOutputValue ran since its creation and the counter was not
\* incremented since the copy of SetDefaultState.
FirstPollReturnStep ==
    /\ op = "poll"
    /\ pc[Scheduler] = "nu_compare"
    /\ pc'[Scheduler] = "idle"
    /\ phase[ctx] = "polled"
    /\ ~inc_since_copy[ctx]

\* C13: context creation. SetDefaultState leaves in the snapshot the
\* payload and the counter the buffer holds when the copy ends, whatever
\* was delivered before; and the first poll of the context, with no
\* delivery since that copy, reports no event and sets no time.
C13_CreationCopiesBuffer ==
    /\ [][InitCopyStep =>
            /\ state_message'[ctx] = received_message_
            /\ state_message_count'[ctx] = received_message_count_
            /\ UNCHANGED <<received_message_, received_message_count_>>]_vars
    /\ [][FirstPollReturnStep => (events' = 0 /\ time' = Infinity)]_vars

\* A context created after two deliveries holds the second one, and its
\* first poll has reported no event.
C13_Witness ==
    /\ Returned("poll")
    /\ phase[ctx] = "polled"
    /\ ~inc_since_copy[ctx]
    /\ observed[ctx] = {<<2, 2>>}
    /\ state_message[ctx] = 2
    /\ state_message_count[ctx] = 2
    /\ events = 0

\* C14: the time of the refresh event. A poll that has returned with an
\* event reports a time strictly after the time of the context, and a poll
\* that has returned without one has left *time as it found it.
C14_EventStrictlyAfterNow ==
    Returned("poll") =>
        IF events = 0 THEN time = Infinity
        ELSE events = 1 /\ Before(context_time, time)

\* A step of SetDefaultState or of DoCalcUnrestrictedUpdate.
InitOrCommitStep ==
    /\ op' \in {"init", "commit"}
    /\ pc'[Scheduler] # pc[Scheduler]

\* The step in which DoCalcNextUpdateTime calls GetMessageCount.
PollCallStep ==
    /\ pc[Scheduler] = "idle"
    /\ pc'[Scheduler] = "nu_lock"

\* C15: the snapshot's frame. A step that changes the payload or the
\* counter stored in any context is a step of SetDefaultState or of
\* DoCalcUnrestrictedUpdate; no step of HandleMessage, WaitForMessage,
\* DoCalcNextUpdateTime or CalcOutputValue changes them. GetMessageCount
\* changes nothing and yields the counter stored in the context.
C15_SnapshotFrame ==
    /\ [][(state_message' # state_message
             \/ state_message_count' # state_message_count
             \/ created' # created) => InitOrCommitStep]_vars
    /\ [][((\E t \in Deliverers \cup Waiters : pc'[t] # pc[t])
             \/ op' \in {"poll", "output"}) => UNCHANGED stateVars]_vars
    /\ [][PollCallStep =>
            /\ last_message_count' = state_message_count[ctx']
            /\ UNCHANGED stateVars]_vars

\* A poll has called GetMessageCount on a context that stores counter 1
\* while the buffer's counter is 2, with a WaitForMessage call about to
\* return.
C15_Witness ==
    /\ Returned("poll")
    /\ state_message_count[ctx] = 1
    /\ received_message_count_ = 2
    /\ last_message_count = 1
    /\ pc[WaiterPool[1]] = "wm_unlock"
    /\ Len(completed) = 2

\* The place of payload m in the order in which the deliveries completed
\* their update of the buffer under the lock; 0 when m is no delivery's.
Position(m) ==
    IF \E k \in 1..Len(incremented) : incremented[k] = m
    THEN CHOOSE k \in 1..Len(incremented) : incremented[k] = m
    ELSE 0

\* C17: deliveries are observed in the order they complete under the lock.
\* No step lowers the counter stored in a context, and no step replaces
\* the payload stored in a context by the payload of a delivery that
\* completed before the delivery whose payload it holds.
C17_SnapshotNeverGoesBack ==
    [][\A c \in Contexts :
          /\ state_message_count'[c] >= state_message_count[c]
          /\ Position(state_message'[c]) >= Position(state_message[c])]_vars

\* Two callbacks took the lock in the reverse of the order in which they
\* were invoked, and the context stored each in turn.
C17_Witness ==
    /\ Returned("commit")
    /\ incremented = <<2, 1>>
    /\ observed[ctx] = {<<DefaultMessage, 0>>, <<2, 1>>, <<1, 2>>}
    /\ state_message[ctx] = 1
    /\ state_message_count[ctx] = 2

\* Every context holds the payload and the counter of the last delivery,
\* no callback is in progress, and a poll that has returned reported no
\* event.
Settled ==
    /\ \A d \in Deliverers : pc[d] = "idle"
    /\ \A c \in Contexts :
        /\ created[c]
        /\ state_message[c] = LastOf(incremented)
        /\ state_message_count[c] = Len(incremented)
        /\ state_message[c] = received_message_
        /\ state_message_count[c] = received_message_count_
    /\ Returned("poll") => (events = 0 /\ time = Infinity)

\* A poll is reporting an event for the counter it read, and a further
\* delivery has completed since that read; the commit has not copied yet.
DeliveryAfterPollRead ==
    /\ op = "poll"
    /\ pc[Scheduler] \in {"nu_compare", "idle"}
    /\ HasNewMessage
    /\ received_message_count < received_message_count_

\* C18: no lost and no duplicated update. Under the simulator's run loop,
\* once the deliveries have stopped the snapshot becomes the last delivered
\* payload and counter and stays so, and the polls from then on report no
\* event; in particular after a delivery that completed between the
\* poll's read of the counter and the commit's copy.
C18_EventuallySettled ==
    /\ <>[]Settled
    /\ DeliveryAfterPollRead ~> []Settled

\* The second delivery completed after the poll read counter 1 and before
\* the commit the poll asks for.
C18_Witness ==
    /\ DeliveryAfterPollRead
    /\ Returned("poll")
    /\ events = 1
    /\ received_message_count = 1
    /\ incremented = <<1, 2>>
    /\ state_message_count[ctx] = 0

\* C19: the manual driving protocol. After
\* WaitForMessage(GetMessageCount(ctx)) has returned, a poll of ctx made
\* before any commit reports one refresh event, and when the commit that
\* follows has returned the counter stored in ctx is at least the value
\* WaitForMessage returned, which is more than the counter it was given.
C19_WaitThenPollThenCommit ==
    /\ (pc[Driver] = "wm_done" /\ Returned("poll")) =>
        /\ events = 1
        /\ last_message_count < received_message_count
    /\ (pc[Driver] = "wm_committed" /\ Returned("commit")) =>
        /\ state_message_count[ctx] >= new_message_count[Driver]
        /\ new_message_count[Driver] > old_message_count[Driver]

\* The second round of the protocol: WaitForMessage(1) blocked, returned 2,
\* the poll reported an event and the commit has stored counter 2.
C19_Witness ==
    /\ pc[Driver] = "wm_committed"
    /\ Returned("commit")
    /\ waits[Driver] >= 1
    /\ old_message_count[Driver] = 1
    /\ new_message_count[Driver] = 2
    /\ state_message_count[ctx] = 2
    /\ state_message[ctx] = 2
====
